---- MODULE Spec2Model ----
(***************************************************************************)
(* Model of scripts/modules/ai-services.js: the AI-response orchestration  *)
(* core of the task-master CLI (PRD breakdown with retries, subtask        *)
(* expansion with fallback, response extraction, error translation).       *)
(***************************************************************************)
EXTENDS Integers, Sequences, FiniteSets, TLC

(***************************************************************************)
(* Bounds of the model.                                                    *)
(***************************************************************************)
\* generation requests one invocation may issue before the model stops it
MaxRequests == 4
\* length of a response text of the PRD breakdown, in lexical items
MaxTextLen == 2
\* length of a response text of a subtask expansion, in lexical items
MaxArrTextLen == 4
\* largest subtask count a caller asks for
MaxCount == 2
\* research-mode invocations running side by side
MaxCalls == 3
\* largest CONFIG.defaultSubtasks
MaxDefaultSubtasks == 11
\* tasks in the data handed to generateComplexityAnalysisPrompt
MaxPromptTasks == 2
\* length of the message of a backend error, in fragments
MaxMsgLen == 2

(***************************************************************************)
(* Message texts.  A message is a sequence of text fragments; a fragment   *)
(* is the literal string of the source (or a vendor's wording).            *)
(***************************************************************************)
QuotaMsg == <<"You have exceeded your quota. Please check your plan and billing details.">>
PermissionMsg == <<"Invalid API key or insufficient permissions. Please check your API key.">>
InvalidMsg == <<"There was an issue with the request format. If this persists, please report it as a bug.">>
TimeoutMsg == <<"The request to Gemini timed out. Please try again.">>
NetworkMsg == <<"There was a network error connecting to Gemini. Please check your internet connection and try again.">>
ApiErrorPrefix == <<"Gemini API error: ">>
CommErrorPrefix == <<"Error communicating with Gemini: ">>
NoJsonMsg == <<"Could not find valid JSON in Gemini's response">>
NoTasksMsg == <<"Gemini's response does not contain a valid tasks array">>
SyntaxErrorMsg == <<"Unexpected token in JSON">>

\* vendor wordings the backend may put into an error
VendorPlain == <<"Internal error encountered.">>
VendorTimeout == <<"Request Timeout after 60000ms">>
VendorNetwork == <<"Network unreachable (fetch failed)">>
VendorBoth == <<"network socket timeout">>
VendorQuota == <<"Quota exceeded for quota metric 'Generate Content API requests'">>
VendorDenied == <<"API key not valid. Please pass a valid API key.">>
VendorBadArg == <<"Invalid JSON payload received.">>

\* the fragments whose lower-cased text contains the word "timeout"
TimeoutFragments == {VendorTimeout[1], VendorBoth[1]}
\* the fragments whose lower-cased text contains the word "network"
NetworkFragments == {NetworkMsg[1], VendorNetwork[1], VendorBoth[1]}

\* msg.toLowerCase().includes(word), word in {"timeout", "network"}
Includes(msg, word) ==
    \E i \in 1..Len(msg) :
        msg[i] \in (IF word = "timeout" THEN TimeoutFragments
                    ELSE IF word = "network" THEN NetworkFragments
                    ELSE {})

(***************************************************************************)
(* Errors.  structured: error.response.error is present; code and rmsg are *)
(* error.response.error.code / .message; msg is error.message.             *)
(***************************************************************************)
ApiError(code, rmsg) == [structured |-> TRUE, code |-> code, rmsg |-> rmsg, msg |-> rmsg]
PlainError(msg) == [structured |-> FALSE, code |-> "", rmsg |-> <<>>, msg |-> msg]
NoError == PlainError(<<>>)

\* the failures the generation backend may raise
BackendErrors ==
    { ApiError("RESOURCE_EXHAUSTED", VendorQuota),
      ApiError("PERMISSION_DENIED", VendorDenied),
      ApiError("INVALID_ARGUMENT", VendorBadArg),
      ApiError("UNAVAILABLE", VendorPlain),
      ApiError("UNAVAILABLE", VendorNetwork),
      PlainError(VendorTimeout),
      PlainError(VendorNetwork),
      PlainError(VendorBoth),
      PlainError(VendorPlain) }

\* handleGeminiError testing the message for "network" before "timeout"
handleGeminiError_networkFirst(error) ==
    IF error.structured
    THEN CASE error.code = "RESOURCE_EXHAUSTED" -> QuotaMsg
           [] error.code = "PERMISSION_DENIED" -> PermissionMsg
           [] error.code = "INVALID_ARGUMENT" -> InvalidMsg
           [] OTHER -> ApiErrorPrefix \o error.rmsg
    ELSE IF Includes(error.msg, "network") THEN NetworkMsg
    ELSE IF Includes(error.msg, "timeout") THEN TimeoutMsg
    ELSE CommErrorPrefix \o error.msg

\* handleGeminiError(error): the user-facing message
handleGeminiError(error) ==
    IF error.structured
    THEN CASE error.code = "RESOURCE_EXHAUSTED" -> QuotaMsg
           [] error.code = "PERMISSION_DENIED" -> PermissionMsg
           [] error.code = "INVALID_ARGUMENT" -> InvalidMsg
           [] OTHER -> ApiErrorPrefix \o error.rmsg
    ELSE IF Includes(error.msg, "timeout") THEN TimeoutMsg
    ELSE IF Includes(error.msg, "network") THEN NetworkMsg
    ELSE CommErrorPrefix \o error.msg

\* ShouldRetry with the bound on retryCount off by one
ShouldRetry_threeRetries(error, retryCount) ==
    /\ retryCount < 3
    /\ \/ (error.structured /\ error.code = "RESOURCE_EXHAUSTED")
       \/ Includes(error.msg, "timeout")
       \/ Includes(error.msg, "network")

\* ShouldRetry without the test of the kind of error
ShouldRetry_anyError(error, retryCount) == retryCount < 2

\* the condition of callGemini's catch block under which it retries
ShouldRetry(error, retryCount) ==
    /\ retryCount < 2
    /\ \/ (error.structured /\ error.code = "RESOURCE_EXHAUSTED")
       \/ Includes(error.msg, "timeout")
       \/ Includes(error.msg, "network")

\* the backoff of callGemini, in milliseconds
WaitTime(retryCount) == (retryCount + 1) * 5000


(***************************************************************************)
(* Response texts of the PRD breakdown.  A text is a sequence of lexical   *)
(* items: "w" is prose without braces, "{" and "}" are stray braces, and   *)
(* an OBJ_ item is one complete JSON object literal (it starts with its    *)
(* opening brace and ends with its closing brace).                         *)
(***************************************************************************)
ObjLiterals ==
    {"OBJ_T1", "OBJ_T2M", "OBJ_T0", "OBJ_TDUP", "OBJ_TRAW", "OBJ_NOTASKS",
     "OBJ_TASKS_STR"}
ObjItems == {"w", "{", "}"} \cup ObjLiterals

Task(id, priority) ==
    [id |-> id, title |-> "T", status |-> "pending", priority |-> priority,
     dependencies |-> <<>>]

NoMetadata ==
    [projectName |-> "", totalTasks |-> 0, sourceFile |-> "", generatedAt |-> ""]
BackendMetadata ==
    [projectName |-> "Apollo", totalTasks |-> 7, sourceFile |-> "other.txt",
     generatedAt |-> "2025-01-01"]

\* the JSON value an object literal denotes
ObjValue(item) ==
    CASE item = "OBJ_T1" ->
           [hasTasks |-> TRUE, tasksIsArray |-> TRUE,
            tasks |-> <<Task(1, "high")>>,
            hasMetadata |-> FALSE, metadata |-> NoMetadata]
      [] item = "OBJ_T2M" ->
           [hasTasks |-> TRUE, tasksIsArray |-> TRUE,
            tasks |-> <<Task(1, "high"), Task(2, "low")>>,
            hasMetadata |-> TRUE, metadata |-> BackendMetadata]
      [] item = "OBJ_T0" ->
           [hasTasks |-> TRUE, tasksIsArray |-> TRUE, tasks |-> <<>>,
            hasMetadata |-> FALSE, metadata |-> NoMetadata]
      [] item = "OBJ_TDUP" ->
           \* {"tasks":[{"id":2,..},{"id":2,..}]}
           [hasTasks |-> TRUE, tasksIsArray |-> TRUE,
            tasks |-> <<Task(2, "high"), Task(2, "low")>>,
            hasMetadata |-> FALSE, metadata |-> NoMetadata]
      [] item = "OBJ_TRAW" ->
           \* {"tasks":[{"id":1,"title":"T","status":"done","dependencies":[]}]}
           \* (priority "": the task carries none)
           [hasTasks |-> TRUE, tasksIsArray |-> TRUE,
            tasks |-> <<[Task(1, "") EXCEPT !.status = "done"]>>,
            hasMetadata |-> FALSE, metadata |-> NoMetadata]
      [] item = "OBJ_TASKS_STR" ->
           [hasTasks |-> TRUE, tasksIsArray |-> FALSE, tasks |-> <<>>,
            hasMetadata |-> FALSE, metadata |-> NoMetadata]
      [] OTHER ->
           [hasTasks |-> FALSE, tasksIsArray |-> FALSE, tasks |-> <<>>,
            hasMetadata |-> FALSE, metadata |-> NoMetadata]

\* all texts over a set of items, up to a length
TextsOver(items, maxLen) == UNION {[1..n -> items] : n \in 0..maxLen}
ObjTexts == TextsOver(ObjItems, MaxTextLen)
\* the texts the generation backend answers a PRD breakdown with: one or two
\* for every way extraction can end
ResponseTexts ==
    { <<>>,                        \* an empty response
      <<"w">>,                     \* prose, no braces
      <<"w", "{", "w">>,           \* an opening brace that is never closed
      <<"{", "w", "}">>,           \* braces around something that is no JSON
      <<"}", "w", "{">>,           \* braces in the wrong order
      <<"OBJ_NOTASKS">>,           \* an object without tasks
      <<"OBJ_TASKS_STR">>,         \* an object whose tasks is no array
      <<"w", "OBJ_T1", "w">>,      \* one task, wrapped in prose
      <<"OBJ_T2M">>,               \* two tasks and metadata
      <<"OBJ_TDUP">>,              \* two tasks with the same id
      <<"OBJ_TRAW">>,              \* a task marked done, without a priority
      <<"OBJ_T0">> }               \* an empty tasks array

\* String.prototype.indexOf / lastIndexOf over items; 0 stands for -1
IndexOf(text, hits) ==
    IF \E i \in 1..Len(text) : text[i] \in hits
    THEN CHOOSE i \in 1..Len(text) :
           /\ text[i] \in hits
           /\ \A j \in 1..(i - 1) : text[j] \notin hits
    ELSE 0
LastIndexOf(text, hits) ==
    IF \E i \in 1..Len(text) : text[i] \in hits
    THEN CHOOSE i \in 1..Len(text) :
           /\ text[i] \in hits
           /\ \A j \in (i + 1)..Len(text) : text[j] \notin hits
    ELSE 0

\* text.substring(from, to + 1) for item positions from and to: substring
\* swaps its arguments when the first is the larger
Substring(text, from, to) ==
    IF from <= to + 1 THEN SubSeq(text, from, to)
    ELSE SubSeq(text, to + 1, from - 1)

\* JSON.parse of a slice in object mode
JsonParseObject(slice) ==
    IF Len(slice) = 1 /\ slice[1] \in ObjLiterals
    THEN [ok |-> TRUE, value |-> ObjValue(slice[1])]
    ELSE IF slice = <<"{", "}">>
    THEN [ok |-> TRUE, value |-> ObjValue("{}")]
    ELSE [ok |-> FALSE, value |-> ObjValue("{}")]

NoData == [tasks |-> <<>>, metadata |-> NoMetadata]

\* an extraction that answers a failure with placeholder tasks
ExtractObject_placeholders(textContent, numTasks, prdPath, date) ==
    [ok |-> TRUE,
     data |-> [tasks |-> [k \in 1..numTasks |-> Task(k, "medium")],
               metadata |-> NoMetadata],
     error |-> <<>>]

\* ExtractObject replacing the metadata of the backend by its own
ExtractObject_alwaysSynthesizes(textContent, numTasks, prdPath, date) ==
    LET jsonStart == IndexOf(textContent, {"{"} \cup ObjLiterals)
        jsonEnd == LastIndexOf(textContent, {"}"} \cup ObjLiterals)
        parsed == JsonParseObject(Substring(textContent, jsonStart, jsonEnd))
    IN  IF jsonStart = 0 \/ jsonEnd = 0
        THEN [ok |-> FALSE, data |-> NoData, error |-> NoJsonMsg]
        ELSE IF ~parsed.ok
        THEN [ok |-> FALSE, data |-> NoData, error |-> SyntaxErrorMsg]
        ELSE IF ~parsed.value.hasTasks \/ ~parsed.value.tasksIsArray
        THEN [ok |-> FALSE, data |-> NoData, error |-> NoTasksMsg]
        ELSE [ok |-> TRUE,
              data |-> [tasks |-> parsed.value.tasks,
                        metadata |-> [projectName |-> "PRD Implementation",
                                      totalTasks |-> Len(parsed.value.tasks),
                                      sourceFile |-> prdPath,
                                      generatedAt |-> date]],
              error |-> <<>>]

\* ExtractObject stamping the metadata of the backend with the date of the run
ExtractObject_stampsBackendMetadata(textContent, numTasks, prdPath, date) ==
    LET jsonStart == IndexOf(textContent, {"{"} \cup ObjLiterals)
        jsonEnd == LastIndexOf(textContent, {"}"} \cup ObjLiterals)
        parsed == JsonParseObject(Substring(textContent, jsonStart, jsonEnd))
    IN  IF jsonStart = 0 \/ jsonEnd = 0
        THEN [ok |-> FALSE, data |-> NoData, error |-> NoJsonMsg]
        ELSE IF ~parsed.ok
        THEN [ok |-> FALSE, data |-> NoData, error |-> SyntaxErrorMsg]
        ELSE IF ~parsed.value.hasTasks \/ ~parsed.value.tasksIsArray
        THEN [ok |-> FALSE, data |-> NoData, error |-> NoTasksMsg]
        ELSE [ok |-> TRUE,
              data |-> [tasks |-> parsed.value.tasks,
                        metadata |->
                          IF parsed.value.hasMetadata
                          THEN [parsed.value.metadata EXCEPT !.generatedAt = date]
                          ELSE [projectName |-> "PRD Implementation",
                                totalTasks |-> Len(parsed.value.tasks),
                                sourceFile |-> prdPath,
                                generatedAt |-> date]],
              error |-> <<>>]

\* ExtractObject cutting the tasks down to the number asked for
ExtractObject_truncates(textContent, numTasks, prdPath, date) ==
    LET jsonStart == IndexOf(textContent, {"{"} \cup ObjLiterals)
        jsonEnd == LastIndexOf(textContent, {"}"} \cup ObjLiterals)
        parsed == JsonParseObject(Substring(textContent, jsonStart, jsonEnd))
        kept == IF Len(parsed.value.tasks) > numTasks
                THEN SubSeq(parsed.value.tasks, 1, numTasks)
                ELSE parsed.value.tasks
    IN  IF jsonStart = 0 \/ jsonEnd = 0
        THEN [ok |-> FALSE, data |-> NoData, error |-> NoJsonMsg]
        ELSE IF ~parsed.ok
        THEN [ok |-> FALSE, data |-> NoData, error |-> SyntaxErrorMsg]
        ELSE IF ~parsed.value.hasTasks \/ ~parsed.value.tasksIsArray
        THEN [ok |-> FALSE, data |-> NoData, error |-> NoTasksMsg]
        ELSE [ok |-> TRUE,
              data |-> [tasks |-> kept,
                        metadata |->
                          IF parsed.value.hasMetadata
                          THEN parsed.value.metadata
                          ELSE [projectName |-> "PRD Implementation",
                                totalTasks |-> Len(kept),
                                sourceFile |-> prdPath,
                                generatedAt |-> date]],
              error |-> <<>>]

\* the try block of processGeminiResponse: the parsed data, or the error
ExtractObject(textContent, numTasks, prdPath, date) ==
    LET jsonStart == IndexOf(textContent, {"{"} \cup ObjLiterals)
        jsonEnd == LastIndexOf(textContent, {"}"} \cup ObjLiterals)
        parsed == JsonParseObject(Substring(textContent, jsonStart, jsonEnd))
    IN  IF jsonStart = 0 \/ jsonEnd = 0
        THEN [ok |-> FALSE, data |-> NoData, error |-> NoJsonMsg]
        ELSE IF ~parsed.ok
        THEN [ok |-> FALSE, data |-> NoData, error |-> SyntaxErrorMsg]
        ELSE IF ~parsed.value.hasTasks \/ ~parsed.value.tasksIsArray
        THEN [ok |-> FALSE, data |-> NoData, error |-> NoTasksMsg]
        ELSE [ok |-> TRUE,
              data |-> [tasks |-> parsed.value.tasks,
                        metadata |->
                          IF parsed.value.hasMetadata
                          THEN parsed.value.metadata
                          ELSE [projectName |-> "PRD Implementation",
                                totalTasks |-> Len(parsed.value.tasks),
                                sourceFile |-> prdPath,
                                generatedAt |-> date]],
              error |-> <<>>]

(***************************************************************************)
(* Response texts of a subtask expansion.  "w" is prose without brackets,  *)
(* "[" and "]" are brackets, and an E_ item is one complete JSON value;    *)
(* values that follow each other inside brackets are separated by commas. *)
(* E_DEPS holds a dependencies array, so its text contains a bracket pair. *)
(***************************************************************************)
ElemLiterals == {"E_99", "E_DEPS", "E_LOOSE", "E_7"}
BracketedLiterals == {"E_DEPS", "E_LOOSE"}
ArrItems == {"w", "[", "]"} \cup ElemLiterals
ArrTexts == TextsOver(ArrItems, MaxArrTextLen)

\* JavaScript values that occur as ids and dependencies
Num(n) == [t |-> "number", n |-> n, s |-> ""]
Str(str) == [t |-> "string", n |-> 0, s |-> str]
NaN == [t |-> "NaN", n |-> 0, s |-> ""]
Undefined == [t |-> "undefined", n |-> 0, s |-> ""]
JsNull == [t |-> "null", n |-> 0, s |-> ""]

\* parseInt(str, 10)
ParseInt(str) ==
    CASE str = "1" -> Num(1)
      [] str = "2" -> Num(2)
      [] str = "2nd" -> Num(2)
      [] OTHER -> NaN

\* a JSON value that is no object: a number, a string, a boolean
Primitive(v) ==
    [kind |-> "primitive", prim |-> v, id |-> Undefined, title |-> "",
     description |-> "", details |-> "", depsIsArray |-> FALSE, deps |-> <<>>,
     status |-> "", parentTaskId |-> 0]
\* a nested array
ArrayElem == [Primitive(Undefined) EXCEPT !.kind = "array"]

\* the JSON value an element literal denotes
ElemValue(item) ==
    CASE item = "E_99" ->
           \* {"id":99,"title":"X","description":"Y"}
           [kind |-> "object", prim |-> Undefined, id |-> Num(99), title |-> "X",
            description |-> "Y", details |-> "", depsIsArray |-> FALSE,
            deps |-> <<>>, status |-> "", parentTaskId |-> 0]
      [] item = "E_DEPS" ->
           \* {"id":1,"title":"A","dependencies":["1","2"],"status":"done","parentTaskId":77}
           [kind |-> "object", prim |-> Undefined, id |-> Num(1), title |-> "A",
            description |-> "", details |-> "", depsIsArray |-> TRUE,
            deps |-> <<Str("1"), Str("2")>>, status |-> "done",
            parentTaskId |-> 77]
      [] item = "E_LOOSE" ->
           \* {"id":2,"title":"B","dependencies":["abc",null]}
           [kind |-> "object", prim |-> Undefined, id |-> Num(2), title |-> "B",
            description |-> "", details |-> "", depsIsArray |-> TRUE,
            deps |-> <<Str("abc"), JsNull>>, status |-> "", parentTaskId |-> 0]
      [] OTHER -> Primitive(Num(7))

\* the values between the outermost brackets, or a syntax error
RECURSIVE Scan(_, _, _)
Scan(items, depth, acc) ==
    IF items = <<>> THEN [ok |-> depth = 0, elems |-> acc]
    ELSE LET h == Head(items)
         IN  IF h = "w" THEN [ok |-> FALSE, elems |-> <<>>]
             ELSE IF h = "["
             THEN Scan(Tail(items), depth + 1,
                       IF depth = 0 THEN Append(acc, ArrayElem) ELSE acc)
             ELSE IF h = "]"
             THEN IF depth = 0 THEN [ok |-> FALSE, elems |-> <<>>]
                  ELSE Scan(Tail(items), depth - 1, acc)
             ELSE Scan(Tail(items), depth,
                       IF depth = 0 THEN Append(acc, ElemValue(h)) ELSE acc)

\* JSON.parse of a slice that starts at a "[" and ends at a "]"
JsonParseArray(slice) ==
    IF Len(slice) >= 2 /\ slice[1] = "[" /\ slice[Len(slice)] = "]"
    THEN Scan(SubSeq(slice, 2, Len(slice) - 1), 0, <<>>)
    ELSE IF Len(slice) = 1 /\ slice[1] \in BracketedLiterals
    THEN \* the slice is the dependencies array inside the literal
         [ok |-> TRUE,
          elems |-> [i \in 1..Len(ElemValue(slice[1]).deps) |->
                       Primitive(ElemValue(slice[1]).deps[i])]]
    ELSE \* the slice starts or ends inside a literal
         [ok |-> FALSE, elems |-> <<>>]

Title(str, n) == [text |-> str, num |-> n]

\* the callback of subtasks.map: TRUE when it throws a TypeError (reading a
\* property of null, or assigning a property of a primitive in strict mode)
NormalizeThrows(subtask) == subtask.kind \in {"null", "primitive"}

\* NormalizeSubtask without the id correction: the emitted id is kept
NormalizeSubtask_keepsEmittedId(subtask, index, startId, parentTaskId) ==
    [id |-> IF subtask.id.t = "number" THEN subtask.id.n ELSE startId + index,
     title |-> Title(subtask.title, 0),
     description |-> subtask.description,
     details |-> subtask.details,
     dependencies |-> <<>>,
     status |-> "pending",
     parentTaskId |-> parentTaskId]

\* NormalizeSubtask trusting the status and the parentTaskId of the output
NormalizeSubtask_trustsEmitted(subtask, index, startId, parentTaskId) ==
    [id |-> IF subtask.id # Num(startId + index) THEN startId + index
            ELSE subtask.id.n,
     title |-> Title(subtask.title, 0),
     description |-> subtask.description,
     details |-> subtask.details,
     dependencies |->
        IF subtask.depsIsArray
        THEN [i \in 1..Len(subtask.deps) |->
                IF subtask.deps[i].t = "string" THEN ParseInt(subtask.deps[i].s)
                ELSE subtask.deps[i]]
        ELSE <<>>,
     status |-> IF subtask.status # "" THEN subtask.status ELSE "pending",
     parentTaskId |-> IF subtask.parentTaskId # 0 THEN subtask.parentTaskId
                      ELSE parentTaskId]

\* the callback of subtasks.map; index counts from 0
NormalizeSubtask(subtask, index, startId, parentTaskId) ==
    [id |-> IF subtask.id # Num(startId + index) THEN startId + index
            ELSE subtask.id.n,
     title |-> Title(subtask.title, 0),
     description |-> subtask.description,
     details |-> subtask.details,
     dependencies |->
        IF subtask.depsIsArray
        THEN [i \in 1..Len(subtask.deps) |->
                IF subtask.deps[i].t = "string" THEN ParseInt(subtask.deps[i].s)
                ELSE subtask.deps[i]]
        ELSE <<>>,
     status |-> "pending",
     parentTaskId |-> parentTaskId]

\* FallbackSubtasks with the loop running to i <= expectedCount
FallbackSubtasks_oneMore(startId, expectedCount, parentTaskId) ==
    [k \in 1..(expectedCount + 1) |->
       [id |-> startId + (k - 1),
        title |-> Title("Subtask ", startId + (k - 1)),
        description |-> "Auto-generated fallback subtask",
        details |-> "This is a fallback subtask created because parsing failed. Please update with real details.",
        dependencies |-> <<>>,
        status |-> "pending",
        parentTaskId |-> parentTaskId]]

\* FallbackSubtasks numbering the titles from 1 instead of startId
FallbackSubtasks_titleFromIndex(startId, expectedCount, parentTaskId) ==
    [k \in 1..expectedCount |->
       [id |-> startId + (k - 1),
        title |-> Title("Subtask ", k),
        description |-> "Auto-generated fallback subtask",
        details |-> "This is a fallback subtask created because parsing failed. Please update with real details.",
        dependencies |-> <<>>,
        status |-> "pending",
        parentTaskId |-> parentTaskId]]

\* the catch block of parseSubtasksFromText
FallbackSubtasks(startId, expectedCount, parentTaskId) ==
    [k \in 1..expectedCount |->
       [id |-> startId + (k - 1),
        title |-> Title("Subtask ", startId + (k - 1)),
        description |-> "Auto-generated fallback subtask",
        details |-> "This is a fallback subtask created because parsing failed. Please update with real details.",
        dependencies |-> <<>>,
        status |-> "pending",
        parentTaskId |-> parentTaskId]]

\* the try block of parseSubtasksFromText up to the validation: the parsed
\* array, or a failure
ExtractArray(text) ==
    LET jsonStartIndex == IndexOf(text, {"["} \cup BracketedLiterals)
        jsonEndIndex == LastIndexOf(text, {"]"} \cup BracketedLiterals)
    IN  IF jsonStartIndex = 0 \/ jsonEndIndex = 0 \/ jsonEndIndex < jsonStartIndex
        THEN [ok |-> FALSE, elems |-> <<>>]
        ELSE JsonParseArray(SubSeq(text, jsonStartIndex, jsonEndIndex))

\* parseSubtasksFromText(text, startId, expectedCount, parentTaskId)
ParseSubtasksFromText(text, startId, expectedCount, parentTaskId) ==
    LET parsed == ExtractArray(text)
    IN  IF parsed.ok /\ \A i \in 1..Len(parsed.elems) : ~NormalizeThrows(parsed.elems[i])
        THEN [i \in 1..Len(parsed.elems) |->
                NormalizeSubtask(parsed.elems[i], i - 1, startId, parentTaskId)]
        ELSE FallbackSubtasks(startId, expectedCount, parentTaskId)

(***************************************************************************)
(* State of one invocation of an exported operation.                       *)
(***************************************************************************)
VARIABLES
    op,      \* the exported function the caller invoked ("none": no call yet)
    pc,      \* where the invocation stands
    stack,   \* retryCount of every callGemini activation awaiting its result
    text,    \* responseText / textContent of the current activation
    err,     \* the error being thrown to the innermost catch block
    args,    \* the caller's arguments
    log,     \* what the invocation did so far: requests, waits, extractions
    result,  \* how the invocation ended
    perplexity,  \* the lazily created research client (FALSE: null)
    googleKey,   \* GOOGLE_API_KEY was set when the module was loaded
    indicators,  \* the loading indicators started and not yet stopped
    timers,      \* the interval timers set and not yet cleared
    inflight,    \* the backend requests issued and not yet settled
    prev,        \* the outcome of the first run, when the caller ran an
                 \* extractor a second time on the same text
    constructed, \* how many times new OpenAI(..) ran in this process
    calls,       \* the research-mode invocations running side by side
    defaultSubtasks,  \* CONFIG.defaultSubtasks
    prompt       \* what generateComplexityAnalysisPrompt returned

vars == <<op, pc, stack, text, err, args, log, result, perplexity, googleKey,
          indicators, timers, inflight, prev, constructed, calls,
          defaultSubtasks, prompt>>

PrdPaths == {"prd.txt"}
Dates == {"2025-03-01", "2025-03-02"}
RetryCounts == 0..2
TaskCounts == {1, 2}
StartIds == {1, 5}
ParentIds == {3}

\* the PRD texts a caller hands to callGemini: a structured one, and an
\* empty one
StructuredPrd == "# Product Requirements Document ..."
EmptyPrd == ""
PrdContents == {StructuredPrd, EmptyPrd}

\* researchKey: PERPLEXITY_API_KEY is set when the call is made
NoArgs == [numTasks |-> 0, prdPath |-> "", startId |-> 0, expectedCount |-> 0,
           parentTaskId |-> 0, retryCount |-> 0, prdContent |-> "",
           researchKey |-> FALSE]
NoResult == [kind |-> "none", msg |-> <<>>, data |-> NoData, subtasks |-> <<>>]

\* an entry of the log: a request that got a "response" or ended in a
\* "failure" (err: the backend's error, n: retryCount of the callGemini
\* activation that issued it), a "wait" (n: milliseconds), an
\* extraction that "extracted" or "extractFailed" (n: retryCount, err: the
\* error of the try block)
Event(ev, e, n) == [ev |-> ev, err |-> e, n |-> n]
Requests(l) == Len(SelectSeq(l, LAMBDA x : x.ev \in {"response", "failure"}))

\* a research-mode invocation running beside others: where it stands and
\* the client it got from getPerplexityClient (0: none; n: the one built by
\* the n-th run of new OpenAI(..))
\* key: PERPLEXITY_API_KEY was set when it called getPerplexityClient;
\* found, left: a client was cached before / after that call
IdleCall == [pc |-> "idle", key |-> FALSE, found |-> FALSE, handle |-> 0,
             left |-> FALSE]
\* no prompt was generated
NoPrompt == [tasks |-> <<>>, low |-> 0, high |-> 0]

\* the module is loaded; key: GOOGLE_API_KEY is set, d: CONFIG.defaultSubtasks.
\* The client is constructed from whatever the variable holds, nothing
\* tests it
Configured(key, d) ==
    /\ op = "none"
    /\ pc = "idle"
    /\ stack = <<>>
    /\ text = <<>>
    /\ err = NoError
    /\ args = NoArgs
    /\ log = <<>>
    /\ result = NoResult
    /\ perplexity = FALSE
    /\ googleKey = key
    /\ indicators = {}
    /\ timers = 0
    /\ inflight = 0
    /\ prev = NoResult
    /\ constructed = 0
    /\ calls = [i \in 1..MaxCalls |-> IdleCall]
    /\ defaultSubtasks = d
    /\ prompt = NoPrompt

\* DEFAULT_SUBTASKS as the example environment sets it
Loaded(key) == Configured(key, 3)

Init == Loaded(TRUE)

\* the invocation returns a value to the caller
Returned(data, subtasks) ==
    [kind |-> "returned", msg |-> <<>>, data |-> data, subtasks |-> subtasks]
\* the invocation throws an error with message msg to the caller
Thrown(msg) ==
    [kind |-> "thrown", msg |-> msg, data |-> NoData, subtasks |-> <<>>]

(***************************************************************************)
(* callGemini -> handleStreamingRequest -> processGeminiResponse           *)
(***************************************************************************)
\* processGeminiResponse(textContent, numTasks, retryCount, prdContent,
\* prdPath), run up to the point where it returns parsedData ("return"),
\* returns the promise of callGemini(.., retryCount + 1) ("regenerate": next
\* is that retryCount) or throws ("throw"); events: the extraction attempts
\* processGeminiResponse asking for a new response at the first failure
processGeminiResponse_regeneratesAtOnce(textContent, numTasks, retryCount, prdPath, date) ==
    LET r == ExtractObject(textContent, numTasks, prdPath, date)
        failed == Event("extractFailed", PlainError(r.error), retryCount)
    IN  IF r.ok
        THEN [kind |-> "return", data |-> r.data, error |-> <<>>, next |-> 0,
              events |-> <<Event("extracted", NoError, retryCount)>>]
        ELSE IF retryCount < 2
        THEN [kind |-> "regenerate", data |-> NoData, error |-> <<>>,
              next |-> retryCount + 1, events |-> <<failed>>]
        ELSE [kind |-> "throw", data |-> NoData, error |-> r.error, next |-> 0,
              events |-> <<failed>>]

RECURSIVE processGeminiResponse(_, _, _, _, _)
processGeminiResponse(textContent, numTasks, retryCount, prdPath, date) ==
    LET r == ExtractObject(textContent, numTasks, prdPath, date)
        failed == Event("extractFailed", PlainError(r.error), retryCount)
    IN  IF r.ok
        THEN [kind |-> "return", data |-> r.data, error |-> <<>>, next |-> 0,
              events |-> <<Event("extracted", NoError, retryCount)>>]
        ELSE IF retryCount < 2
        THEN IF retryCount = 1
             THEN [kind |-> "regenerate", data |-> NoData, error |-> <<>>,
                   next |-> retryCount + 1, events |-> <<failed>>]
             ELSE LET again == processGeminiResponse(textContent, numTasks,
                                                     retryCount + 1, prdPath, date)
                  IN  [again EXCEPT !.events = <<failed>> \o @]
        ELSE [kind |-> "throw", data |-> NoData, error |-> r.error, next |-> 0,
              events |-> <<failed>>]

\* the caller invokes callGemini(prdContent, prdPath, numTasks)
StartCallGemini ==
    /\ pc = "idle"
    /\ \E n \in TaskCounts, p \in PrdPaths, prd \in PrdContents :
         args' = [NoArgs EXCEPT !.numTasks = n, !.prdPath = p,
                                !.prdContent = prd]
    /\ op' = "callGemini"
    /\ stack' = <<0>>
    /\ pc' = "request"
    /\ text' = <<>>
    /\ err' = NoError
    /\ log' = <<>>
    /\ result' = NoResult
    \* handleStreamingRequest starts its indicator and issues the request
    /\ indicators' = {"generation"}
    /\ inflight' = 1
    /\ timers' = 0
    /\ UNCHANGED <<perplexity, googleKey, prev>>
    /\ UNCHANGED <<constructed, calls, defaultSubtasks, prompt>>

\* handleStreamingRequest: model.generateContent resolves with a text, which
\* is handed to processGeminiResponse with retryCount 0
GenerateContentReturns ==
    /\ googleKey
    /\ pc = "request"
    /\ Requests(log) < MaxRequests
    /\ \E t \in ResponseTexts, date \in Dates :
         LET r == processGeminiResponse(t, args.numTasks, 0, args.prdPath, date)
         IN  /\ log' = Append(log, Event("response", NoError, stack[Len(stack)]))
                           \o r.events
             /\ CASE r.kind = "return" ->
                       \* parsedData passes through every awaiting activation
                       /\ result' = Returned(r.data, <<>>)
                       /\ pc' = "done"
                       /\ stack' = <<>>
                       /\ text' = t
                       /\ err' = NoError
                       /\ indicators' = {}
                       /\ inflight' = inflight - 1
                  [] r.kind = "regenerate" ->
                       \* a new activation of callGemini, awaited by this one;
                       \* its handleStreamingRequest starts with responseText = ""
                       /\ stack' = Append(stack, r.next)
                       /\ pc' = "request"
                       /\ text' = <<>>
                       /\ UNCHANGED <<err, result>>
                       /\ indicators' = {"generation"}
                       /\ inflight' = (inflight - 1) + 1
                  [] OTHER ->
                       \* thrown inside the try block of handleStreamingRequest
                       /\ err' = PlainError(handleGeminiError(PlainError(r.error)))
                       /\ pc' = "catch"
                       /\ text' = t
                       /\ UNCHANGED <<stack, result>>
                       /\ indicators' = {}
                       /\ inflight' = inflight - 1
    /\ UNCHANGED <<op, args>>
    \* the interval of line 185 is set and cleared before the next await
    /\ timers' = timers
    /\ UNCHANGED <<perplexity, googleKey, prev>>
    /\ UNCHANGED <<constructed, calls, defaultSubtasks, prompt>>

\* handleStreamingRequest: model.generateContent rejects; the catch block
\* throws a new Error carrying the user-facing message
GenerateContentThrows ==
    /\ pc = "request"
    /\ Requests(log) < MaxRequests
    /\ \E e \in BackendErrors :
         /\ log' = Append(log, Event("failure", e, stack[Len(stack)]))
         /\ err' = PlainError(handleGeminiError(e))
    /\ pc' = "catch"
    /\ UNCHANGED <<op, stack, text, args, result>>
    /\ indicators' = {}
    /\ inflight' = inflight - 1
    /\ UNCHANGED <<perplexity, googleKey, prev, timers>>
    /\ UNCHANGED <<constructed, calls, defaultSubtasks, prompt>>

\* the catch block of the innermost awaiting callGemini activation
CallGeminiCatch ==
    /\ pc = "catch"
    /\ LET retryCount == stack[Len(stack)]
           userMessage == handleGeminiError(err)
       IN  IF ShouldRetry(err, retryCount)
           THEN \* await new Promise(resolve => setTimeout(resolve, waitTime))
                /\ log' = Append(log, Event("wait", NoError, WaitTime(retryCount)))
                /\ pc' = "wait"
                /\ UNCHANGED <<stack, err, result>>
           ELSE \* throw new Error(userMessage)
                /\ stack' = SubSeq(stack, 1, Len(stack) - 1)
                /\ log' = log
                /\ IF Len(stack) = 1
                   THEN /\ result' = Thrown(userMessage)
                        /\ pc' = "done"
                        /\ err' = NoError
                   ELSE /\ err' = PlainError(userMessage)
                        /\ pc' = "catch"
                        /\ UNCHANGED result
    /\ UNCHANGED <<op, text, args>>
    /\ UNCHANGED <<perplexity, googleKey, prev, indicators, timers, inflight>>
    /\ UNCHANGED <<constructed, calls, defaultSubtasks, prompt>>

\* the backoff timer fires: return await callGemini(.., retryCount + 1)
BackoffElapsed ==
    /\ pc = "wait"
    /\ stack' = [stack EXCEPT ![Len(stack)] = @ + 1]
    /\ pc' = "request"
    /\ err' = NoError
    /\ UNCHANGED <<op, text, args, log, result>>
    /\ indicators' = indicators \cup {"generation"}
    /\ inflight' = inflight + 1
    /\ UNCHANGED <<perplexity, googleKey, prev, timers>>
    /\ UNCHANGED <<constructed, calls, defaultSubtasks, prompt>>

\* the caller invokes the exported processGeminiResponse directly
CallProcessGeminiResponse ==
    /\ pc = "idle"
    /\ \E n \in TaskCounts, p \in PrdPaths, t \in ObjTexts, rc \in RetryCounts,
          date \in Dates :
         LET r == processGeminiResponse(t, n, rc, p, date)
         IN  /\ args' = [NoArgs EXCEPT !.numTasks = n, !.prdPath = p,
                                       !.retryCount = rc]
             /\ log' = r.events
             /\ CASE r.kind = "return" ->
                       /\ result' = Returned(r.data, <<>>)
                       /\ pc' = "done"
                       /\ stack' = <<>>
                       /\ text' = t
                       /\ indicators' = {}
                       /\ inflight' = 0
                  [] r.kind = "regenerate" ->
                       /\ result' = NoResult
                       /\ pc' = "request"
                       /\ stack' = <<r.next>>
                       /\ text' = <<>>
                       /\ indicators' = {"generation"}
                       /\ inflight' = 1
                  [] OTHER ->
                       /\ result' = Thrown(r.error)
                       /\ pc' = "done"
                       /\ stack' = <<>>
                       /\ text' = t
                       /\ indicators' = {}
                       /\ inflight' = 0
    /\ op' = "processGeminiResponse"
    /\ err' = NoError
    /\ UNCHANGED <<perplexity, googleKey, prev, timers>>
    /\ UNCHANGED <<constructed, calls, defaultSubtasks, prompt>>

(***************************************************************************)
(* generateSubtasks and parseSubtasksFromText                              *)
(***************************************************************************)
\* what genAI.messages.create raises when the client has no messages member
TypeErrorMsg == <<"Cannot read properties of undefined (reading 'create')">>
SubtaskErrors == BackendErrors \cup {PlainError(TypeErrorMsg)}

\* the texts the generation backend answers a subtask expansion with: one
\* or two for every way extraction and normalization can end
SubtaskResponseTexts ==
    { <<>>,                            \* an empty response
      <<"w">>,                         \* prose, no brackets
      <<"]", "w", "[">>,               \* brackets in the wrong order
      <<"[", "w", "]">>,               \* brackets around something that is no JSON
      <<"[", "]">>,                    \* an empty array
      <<"w", "[", "E_99", "]">>,       \* one subtask, wrapped in prose
      <<"[", "E_99", "E_DEPS", "]">>,  \* two subtasks
      <<"[", "E_LOOSE", "]">>,         \* dependencies that are no integers
      <<"[", "E_7", "]">>,             \* an element that is no object
      <<"E_DEPS">> }                   \* a single object, not in an array

\* the caller invokes generateSubtasks(task, numSubtasks, nextSubtaskId)
StartGenerateSubtasks ==
    /\ pc = "idle"
    /\ \E n \in 1..MaxCount, sid \in StartIds, parent \in ParentIds :
         args' = [NoArgs EXCEPT !.expectedCount = n, !.startId = sid,
                                !.parentTaskId = parent]
    /\ op' = "generateSubtasks"
    /\ pc' = "subRequest"
    /\ stack' = <<>>
    /\ text' = <<>>
    /\ err' = NoError
    /\ log' = <<>>
    /\ result' = NoResult
    \* the indicator is started, the interval is set, the request is issued
    /\ indicators' = {"generation"}
    /\ timers' = 1
    /\ inflight' = 1
    /\ UNCHANGED <<perplexity, googleKey, prev>>
    /\ UNCHANGED <<constructed, calls, defaultSubtasks, prompt>>

\* the stream of genAI.messages.create ends: the accumulated responseText is
\* handed to parseSubtasksFromText, whose result is returned
MessagesCreateReturns ==
    /\ googleKey
    /\ pc = "subRequest"
    /\ \E t \in SubtaskResponseTexts :
         /\ text' = t
         /\ result' = Returned(NoData,
                ParseSubtasksFromText(t, args.startId, args.expectedCount,
                                      args.parentTaskId))
    /\ log' = Append(log, Event("response", NoError, 0))
    /\ pc' = "done"
    /\ UNCHANGED <<op, stack, err, args>>
    \* clearInterval and stopLoadingIndicator
    /\ timers' = 0
    /\ indicators' = {}
    /\ inflight' = inflight - 1
    /\ UNCHANGED <<perplexity, googleKey, prev>>
    /\ UNCHANGED <<constructed, calls, defaultSubtasks, prompt>>

\* MessagesCreateThrows without the clearInterval of the catch block
MessagesCreateThrows_keepsTimer ==
    /\ pc = "subRequest"
    /\ \E e \in SubtaskErrors :
         /\ log' = Append(log, Event("failure", e, 0))
         /\ result' = Thrown(e.msg)
    /\ pc' = "done"
    /\ UNCHANGED <<op, stack, text, err, args>>
    /\ timers' = timers
    /\ indicators' = {}
    /\ inflight' = inflight - 1
    /\ UNCHANGED <<perplexity, googleKey, prev>>
    /\ UNCHANGED <<constructed, calls, defaultSubtasks, prompt>>

\* genAI.messages.create or the stream raises: both catch blocks of
\* generateSubtasks rethrow the error
MessagesCreateThrows ==
    /\ pc = "subRequest"
    /\ \E e \in SubtaskErrors :
         /\ log' = Append(log, Event("failure", e, 0))
         /\ result' = Thrown(e.msg)
    /\ pc' = "done"
    /\ UNCHANGED <<op, stack, text, err, args>>
    \* clearInterval and stopLoadingIndicator
    /\ timers' = 0
    /\ indicators' = {}
    /\ inflight' = inflight - 1
    /\ UNCHANGED <<perplexity, googleKey, prev>>
    /\ UNCHANGED <<constructed, calls, defaultSubtasks, prompt>>

\* the caller invokes the exported parseSubtasksFromText directly
CallParseSubtasksFromText ==
    /\ pc = "idle"
    /\ \E t \in ArrTexts, n \in 1..MaxCount, sid \in StartIds, parent \in ParentIds :
         /\ args' = [NoArgs EXCEPT !.expectedCount = n, !.startId = sid,
                                   !.parentTaskId = parent]
         /\ text' = t
         /\ result' = Returned(NoData, ParseSubtasksFromText(t, sid, n, parent))
    /\ op' = "parseSubtasksFromText"
    /\ pc' = "done"
    /\ stack' = <<>>
    /\ err' = NoError
    /\ log' = <<>>
    /\ UNCHANGED <<perplexity, googleKey, prev, indicators, timers, inflight>>
    /\ UNCHANGED <<constructed, calls, defaultSubtasks, prompt>>

(***************************************************************************)
(* getPerplexityClient and generateSubtasksWithPerplexity                  *)
(***************************************************************************)
MissingKeyMsg == <<"PERPLEXITY_API_KEY environment variable is missing. Set it to use research-backed features.">>
NoChoicesMsg == <<"Cannot read properties of undefined (reading 'message')">>
\* the failures the research backend may raise
ResearchErrors == {PlainError(VendorDenied), PlainError(VendorNetwork)}
\* what the research backend resolves with: a completion with a first
\* choice, or one whose choices are empty
ResearchReplies == {"content", "noChoices"}

\* the generation backend answers a research-backed expansion as it answers
\* a plain one
ResearchResponseTexts == SubtaskResponseTexts

\* getPerplexityClient() with hasKey: PERPLEXITY_API_KEY is set; client is
\* the cached client (FALSE: null)
\* getPerplexityClient constructing a client on every call that finds the key
getPerplexityClient_noCache(client, hasKey) ==
    IF ~hasKey
    THEN IF client
         THEN [ok |-> TRUE, client |-> TRUE, built |-> FALSE, error |-> <<>>]
         ELSE [ok |-> FALSE, client |-> client, built |-> FALSE, error |-> MissingKeyMsg]
    ELSE [ok |-> TRUE, client |-> TRUE, built |-> TRUE, error |-> <<>>]

\* built: new OpenAI(..) ran in this call
getPerplexityClient(client, hasKey) ==
    IF ~client /\ ~hasKey
    THEN [ok |-> FALSE, client |-> client, built |-> FALSE, error |-> MissingKeyMsg]
    ELSE [ok |-> TRUE, client |-> TRUE, built |-> ~client, error |-> <<>>]

\* StartGenerateSubtasksWithPerplexity starting the research indicator
\* before it asks for the client
StartGenerateSubtasksWithPerplexity_indicatorFirst ==
    /\ pc = "idle"
    /\ \E n \in 1..MaxCount, sid \in StartIds, parent \in ParentIds,
          hasKey \in BOOLEAN :
         LET c == getPerplexityClient(perplexity, hasKey)
         IN  /\ args' = [NoArgs EXCEPT !.expectedCount = n, !.startId = sid,
                                       !.parentTaskId = parent,
                                       !.researchKey = hasKey]
             /\ perplexity' = c.client
             /\ constructed' = constructed + (IF c.built THEN 1 ELSE 0)
             /\ IF c.ok
                THEN \* the research indicator is started, the request issued
                     /\ pc' = "research"
                     /\ log' = <<>>
                     /\ result' = NoResult
                     /\ indicators' = {"research"}
                     /\ inflight' = 1
                ELSE \* thrown by getPerplexityClient, rethrown by the catch
                     /\ pc' = "done"
                     /\ log' = <<Event("researchFailed", PlainError(c.error), 0)>>
                     /\ result' = Thrown(c.error)
                     /\ indicators' = {"research"}
                     /\ inflight' = 0
    /\ op' = "generateSubtasksWithPerplexity"
    /\ stack' = <<>>
    /\ text' = <<>>
    /\ err' = NoError
    /\ timers' = 0
    /\ UNCHANGED <<googleKey, prev>>
    /\ UNCHANGED <<calls, defaultSubtasks, prompt>>

\* StartGenerateSubtasksWithPerplexity issuing the generation request
\* together with the research request
StartGenerateSubtasksWithPerplexity_noAwait ==
    /\ pc = "idle"
    /\ \E n \in 1..MaxCount, sid \in StartIds, parent \in ParentIds,
          hasKey \in BOOLEAN :
         LET c == getPerplexityClient(perplexity, hasKey)
         IN  /\ args' = [NoArgs EXCEPT !.expectedCount = n, !.startId = sid,
                                       !.parentTaskId = parent,
                                       !.researchKey = hasKey]
             /\ perplexity' = c.client
             /\ constructed' = constructed + (IF c.built THEN 1 ELSE 0)
             /\ IF c.ok
                THEN \* the research indicator is started, the request issued
                     /\ pc' = "research"
                     /\ log' = <<>>
                     /\ result' = NoResult
                     /\ indicators' = {"research", "generation"}
                     /\ inflight' = 2
                ELSE \* thrown by getPerplexityClient, rethrown by the catch
                     /\ pc' = "done"
                     /\ log' = <<Event("researchFailed", PlainError(c.error), 0)>>
                     /\ result' = Thrown(c.error)
                     /\ indicators' = {}
                     /\ inflight' = 0
    /\ op' = "generateSubtasksWithPerplexity"
    /\ stack' = <<>>
    /\ text' = <<>>
    /\ err' = NoError
    /\ timers' = 0
    /\ UNCHANGED <<googleKey, prev>>
    /\ UNCHANGED <<calls, defaultSubtasks, prompt>>

\* the caller invokes generateSubtasksWithPerplexity(task, numSubtasks,
\* nextSubtaskId): it gets the client and issues the research request
StartGenerateSubtasksWithPerplexity ==
    /\ pc = "idle"
    /\ \E n \in 1..MaxCount, sid \in StartIds, parent \in ParentIds,
          hasKey \in BOOLEAN :
         LET c == getPerplexityClient(perplexity, hasKey)
         IN  /\ args' = [NoArgs EXCEPT !.expectedCount = n, !.startId = sid,
                                       !.parentTaskId = parent,
                                       !.researchKey = hasKey]
             /\ perplexity' = c.client
             /\ constructed' = constructed + (IF c.built THEN 1 ELSE 0)
             /\ IF c.ok
                THEN \* the research indicator is started, the request issued
                     /\ pc' = "research"
                     /\ log' = <<>>
                     /\ result' = NoResult
                     /\ indicators' = {"research"}
                     /\ inflight' = 1
                ELSE \* thrown by getPerplexityClient, rethrown by the catch
                     /\ pc' = "done"
                     /\ log' = <<Event("researchFailed", PlainError(c.error), 0)>>
                     /\ result' = Thrown(c.error)
                     /\ indicators' = {}
                     /\ inflight' = 0
    /\ op' = "generateSubtasksWithPerplexity"
    /\ stack' = <<>>
    /\ text' = <<>>
    /\ err' = NoError
    /\ timers' = 0
    /\ UNCHANGED <<googleKey, prev>>
    /\ UNCHANGED <<calls, defaultSubtasks, prompt>>

\* perplexityClient.chat.completions.create resolves; the content of its
\* first choice is read and the generation request is issued
ResearchReturns ==
    /\ pc = "research"
    /\ \E reply \in ResearchReplies :
         IF reply = "content"
         THEN \* the research indicator is stopped; the generation indicator
              \* is started, the interval is set, the request is issued
              /\ log' = Append(log, Event("research", NoError, 0))
              /\ pc' = "resRequest"
              /\ indicators' = (indicators \ {"research"}) \cup {"generation"}
              /\ timers' = 1
              /\ inflight' = (inflight - 1) + 1
              /\ UNCHANGED result
         ELSE \* researchResponse.choices[0] is undefined: a TypeError
              /\ log' = Append(log, Event("researchFailed", PlainError(NoChoicesMsg), 0))
              /\ pc' = "done"
              /\ result' = Thrown(NoChoicesMsg)
              /\ inflight' = inflight - 1
              /\ UNCHANGED <<indicators, timers>>
    /\ UNCHANGED <<op, stack, text, err, args, perplexity, googleKey, prev>>
    /\ UNCHANGED <<constructed, calls, defaultSubtasks, prompt>>

\* ResearchThrows degrading to the expansion without research: the error is
\* logged and the generation request is issued all the same
ResearchThrows_degrades ==
    /\ pc = "research"
    /\ \E e \in ResearchErrors :
         log' = Append(log, Event("researchFailed", e, 0))
    /\ pc' = "resRequest"
    /\ indicators' = (indicators \ {"research"}) \cup {"generation"}
    /\ timers' = 1
    /\ inflight' = (inflight - 1) + 1
    /\ UNCHANGED <<op, stack, text, err, args, result, perplexity, googleKey, prev>>
    /\ UNCHANGED <<constructed, calls, defaultSubtasks, prompt>>

\* perplexityClient.chat.completions.create rejects: the outer catch block
\* rethrows the error
ResearchThrows ==
    /\ pc = "research"
    /\ \E e \in ResearchErrors :
         /\ log' = Append(log, Event("researchFailed", e, 0))
         /\ result' = Thrown(e.msg)
    /\ pc' = "done"
    \* the outer catch block stops no indicator
    /\ inflight' = inflight - 1
    /\ UNCHANGED <<indicators, timers>>
    /\ UNCHANGED <<op, stack, text, err, args, perplexity, googleKey, prev>>
    /\ UNCHANGED <<constructed, calls, defaultSubtasks, prompt>>

\* the stream of genAI.messages.create ends: the accumulated responseText is
\* handed to parseSubtasksFromText, whose result is returned
ResearchMessagesCreateReturns ==
    /\ googleKey
    /\ pc = "resRequest"
    /\ \E t \in ResearchResponseTexts :
         /\ text' = t
         /\ result' = Returned(NoData,
                ParseSubtasksFromText(t, args.startId, args.expectedCount,
                                      args.parentTaskId))
    /\ log' = Append(log, Event("response", NoError, 0))
    /\ pc' = "done"
    \* clearInterval and stopLoadingIndicator
    /\ timers' = 0
    /\ indicators' = indicators \ {"generation"}
    /\ inflight' = inflight - 1
    /\ UNCHANGED <<op, stack, err, args, perplexity, googleKey, prev>>
    /\ UNCHANGED <<constructed, calls, defaultSubtasks, prompt>>

\* genAI.messages.create or the stream raises after the research: both
\* catch blocks rethrow the error
ResearchMessagesCreateThrows ==
    /\ pc = "resRequest"
    /\ \E e \in SubtaskErrors :
         /\ log' = Append(log, Event("failure", e, 0))
         /\ result' = Thrown(e.msg)
    /\ pc' = "done"
    \* clearInterval and stopLoadingIndicator
    /\ timers' = 0
    /\ indicators' = indicators \ {"generation"}
    /\ inflight' = inflight - 1
    /\ UNCHANGED <<op, stack, text, err, args, perplexity, googleKey, prev>>
    /\ UNCHANGED <<constructed, calls, defaultSubtasks, prompt>>

(***************************************************************************)
(* Running an extractor a second time                                      *)
(***************************************************************************)
\* the caller, having the outcome of the exported processGeminiResponse or
\* parseSubtasksFromText, calls it again with the same text and arguments
ExtractAgain ==
    /\ pc = "done"
    /\ op \in {"processGeminiResponse", "parseSubtasksFromText"}
    /\ prev = NoResult
    /\ prev' = result
    /\ IF op = "parseSubtasksFromText"
       THEN /\ result' = Returned(NoData,
                   ParseSubtasksFromText(text, args.startId, args.expectedCount,
                                         args.parentTaskId))
            /\ UNCHANGED <<log, pc, stack, indicators, inflight>>
       ELSE \E date \in Dates :
              LET r == processGeminiResponse(text, args.numTasks, args.retryCount,
                                             args.prdPath, date)
              IN  /\ log' = r.events
                  /\ CASE r.kind = "return" ->
                            /\ result' = Returned(r.data, <<>>)
                            /\ UNCHANGED <<pc, stack, indicators, inflight>>
                       [] r.kind = "regenerate" ->
                            /\ result' = NoResult
                            /\ pc' = "request"
                            /\ stack' = <<r.next>>
                            /\ indicators' = {"generation"}
                            /\ inflight' = 1
                       [] OTHER ->
                            /\ result' = Thrown(r.error)
                            /\ UNCHANGED <<pc, stack, indicators, inflight>>
    /\ UNCHANGED <<op, text, err, args, perplexity, googleKey, timers>>
    /\ UNCHANGED <<constructed, calls, defaultSubtasks, prompt>>

(***************************************************************************)
(* handleGeminiError called directly, on errors of every shape             *)
(***************************************************************************)
VendorFragments ==
    {VendorPlain[1], VendorTimeout[1], VendorNetwork[1], VendorBoth[1],
     VendorQuota[1], VendorDenied[1], VendorBadArg[1]}
\* the messages an error may carry
VendorMessages ==
    UNION {[1..n -> VendorFragments] : n \in 0..MaxMsgLen}
ErrorCodes ==
    {"RESOURCE_EXHAUSTED", "PERMISSION_DENIED", "INVALID_ARGUMENT", "UNAVAILABLE"}
ErrorInputs ==
    {ApiError(c, m) : c \in ErrorCodes, m \in VendorMessages}
        \cup {PlainError(m) : m \in VendorMessages}

\* the caller invokes handleGeminiError(error)
CallHandleGeminiError ==
    /\ pc = "idle"
    /\ \E e \in ErrorInputs :
         /\ err' = e
         /\ result' = [NoResult EXCEPT !.kind = "returned",
                                       !.msg = handleGeminiError(e)]
    /\ op' = "handleGeminiError"
    /\ pc' = "done"
    /\ UNCHANGED <<stack, text, args, log, perplexity, googleKey, indicators,
                   timers, inflight, prev, constructed, calls,
                   defaultSubtasks, prompt>>

(***************************************************************************)
(* generateComplexityAnalysisPrompt                                        *)
(***************************************************************************)
Max(a, b) == IF a >= b THEN a ELSE b
Min(a, b) == IF a <= b THEN a ELSE b

\* a task of tasksData.tasks: priority "" and dependencies "none" stand for
\* an absent field
PromptTasks ==
    [priority : {"high", ""}, dependencies : {"none", <<1>>}]
PromptTasksData == UNION {[1..n -> PromptTasks] : n \in 0..MaxPromptTasks}

\* generateComplexityAnalysisPrompt(tasksData) under CONFIG.defaultSubtasks
\* d: the lines written for each task, and the two ends of the range
\* written after "recommendedSubtasks"
generateComplexityAnalysisPrompt(tasks, d) ==
    [tasks |-> [i \in 1..Len(tasks) |->
                  [priority |-> IF tasks[i].priority = "" THEN "medium"
                                ELSE tasks[i].priority,
                   dependencies |-> IF tasks[i].dependencies = "none" THEN <<>>
                                    ELSE tasks[i].dependencies]],
     low |-> Max(3, d - 1),
     high |-> Min(8, d + 2)]

\* the caller invokes generateComplexityAnalysisPrompt(tasksData)
CallGenerateComplexityAnalysisPrompt ==
    /\ pc = "idle"
    /\ \E tasks \in PromptTasksData :
         prompt' = generateComplexityAnalysisPrompt(tasks, defaultSubtasks)
    /\ op' = "generateComplexityAnalysisPrompt"
    /\ pc' = "done"
    /\ UNCHANGED <<stack, text, err, args, log, result, perplexity, googleKey,
                   indicators, timers, inflight, prev, constructed, calls,
                   defaultSubtasks>>

(***************************************************************************)
(* Research-mode invocations running side by side: a caller may invoke     *)
(* generateSubtasksWithPerplexity again while earlier invocations await    *)
(* their requests.  Each invocation runs from one await to the next        *)
(* without interruption; all share the module's client.                    *)
(***************************************************************************)
\* invocation i starts: getPerplexityClient, then the research request
ResearchCallStarts ==
    /\ pc = "idle"
    /\ \E i \in 1..MaxCalls, hasKey \in BOOLEAN :
         LET c == getPerplexityClient(perplexity, hasKey)
             n == constructed + (IF c.built THEN 1 ELSE 0)
         IN  /\ calls[i].pc = "idle"
             /\ perplexity' = c.client
             /\ constructed' = n
             /\ calls' = [calls EXCEPT ![i] =
                            [pc |-> IF c.ok THEN "research" ELSE "thrown",
                             key |-> hasKey,
                             found |-> perplexity,
                             handle |-> IF c.ok THEN n ELSE 0,
                             left |-> c.client]]
    /\ UNCHANGED <<op, pc, stack, text, err, args, log, result, googleKey,
                   indicators, timers, inflight, prev, defaultSubtasks, prompt>>

\* the research request of invocation i settles: with a first choice the
\* generation request is issued, otherwise the invocation throws
ResearchCallResearchSettles ==
    /\ \E i \in 1..MaxCalls, reply \in ResearchReplies \cup {"rejected"} :
         /\ calls[i].pc = "research"
         /\ calls' = [calls EXCEPT ![i].pc =
                        IF reply = "content" THEN "generation" ELSE "thrown"]
    /\ UNCHANGED <<op, pc, stack, text, err, args, log, result, perplexity,
                   googleKey, indicators, timers, inflight, prev, constructed,
                   defaultSubtasks, prompt>>

\* the generation request of invocation i settles: the subtasks are
\* returned, or the error is rethrown
ResearchCallGenerationSettles ==
    /\ \E i \in 1..MaxCalls, outcome \in {"returned", "thrown"} :
         /\ calls[i].pc = "generation"
         /\ calls' = [calls EXCEPT ![i].pc = outcome]
    /\ UNCHANGED <<op, pc, stack, text, err, args, log, result, perplexity,
                   googleKey, indicators, timers, inflight, prev, constructed,
                   defaultSubtasks, prompt>>

\* the caller has the outcome of invocation i
ResearchCallEnds ==
    /\ \E i \in 1..MaxCalls :
         /\ calls[i].pc \in {"returned", "thrown"}
         /\ calls' = [calls EXCEPT ![i] = IdleCall]
    /\ UNCHANGED <<op, pc, stack, text, err, args, log, result, perplexity,
                   googleKey, indicators, timers, inflight, prev, constructed,
                   defaultSubtasks, prompt>>

\* the caller has the outcome; the next invocation may start
Finish ==
    /\ pc = "done"
    /\ pc' = "idle"
    /\ op' = "none"
    /\ stack' = <<>>
    /\ text' = <<>>
    /\ err' = NoError
    /\ args' = NoArgs
    /\ log' = <<>>
    /\ result' = NoResult
    /\ indicators' = {}
    /\ timers' = 0
    /\ inflight' = 0
    /\ prev' = NoResult
    /\ UNCHANGED <<perplexity, googleKey>>
    /\ prompt' = NoPrompt
    /\ UNCHANGED <<constructed, calls, defaultSubtasks>>

Next ==
    \/ StartCallGemini
    \/ GenerateContentReturns
    \/ GenerateContentThrows
    \/ CallGeminiCatch
    \/ BackoffElapsed
    \/ CallProcessGeminiResponse
    \/ StartGenerateSubtasks
    \/ MessagesCreateReturns
    \/ MessagesCreateThrows
    \/ CallParseSubtasksFromText
    \/ StartGenerateSubtasksWithPerplexity
    \/ ResearchReturns
    \/ ResearchThrows
    \/ ResearchMessagesCreateReturns
    \/ ResearchMessagesCreateThrows
    \/ Finish

Spec == Init /\ [][Next]_vars

\* the extractors alone, each called directly and then called again
InitRerun == Loaded(TRUE)
NextRerun ==
    \/ CallProcessGeminiResponse
    \/ CallParseSubtasksFromText
    \/ ExtractAgain
    \/ Finish
SpecRerun == InitRerun /\ [][NextRerun]_vars

\* the module loaded without GOOGLE_API_KEY: the backend answers no request
InitNoCredential == Loaded(FALSE)
NextNoCredential ==
    \/ StartCallGemini
    \/ GenerateContentThrows
    \/ CallGeminiCatch
    \/ BackoffElapsed
    \/ StartGenerateSubtasks
    \/ MessagesCreateThrows
    \/ Finish
SpecNoCredential == InitNoCredential /\ [][NextNoCredential]_vars

\* research-mode invocations in every interleaving
InitConcurrent == Loaded(TRUE)
NextConcurrent ==
    \/ ResearchCallStarts
    \/ ResearchCallResearchSettles
    \/ ResearchCallGenerationSettles
    \/ ResearchCallEnds
SpecConcurrent == InitConcurrent /\ [][NextConcurrent]_vars

\* the error translation alone
InitErrors == Loaded(TRUE)
NextErrors ==
    \/ CallHandleGeminiError
    \/ Finish
SpecErrors == InitErrors /\ [][NextErrors]_vars

\* the complexity-analysis prompt alone, under every configured
\* DEFAULT_SUBTASKS
InitAnalysis == \E d \in 1..MaxDefaultSubtasks : Configured(TRUE, d)
NextAnalysis ==
    \/ CallGenerateComplexityAnalysisPrompt
    \/ Finish
SpecAnalysis == InitAnalysis /\ [][NextAnalysis]_vars

(***************************************************************************)
(* Notions the properties are stated with.                                 *)
(***************************************************************************)
\* the failure class handleGeminiError puts a backend error in
ErrorClass(error) ==
    IF error.structured
    THEN CASE error.code = "RESOURCE_EXHAUSTED" -> "quota"
           [] error.code = "PERMISSION_DENIED" -> "permission"
           [] error.code = "INVALID_ARGUMENT" -> "invalid"
           [] OTHER -> "other"
    ELSE IF Includes(error.msg, "timeout") THEN "timeout"
    ELSE IF Includes(error.msg, "network") THEN "network"
    ELSE "other"

IsRequest(e) == e.ev \in {"response", "failure"}
\* the positions of the log at which a generation request ended
RequestIdx == {i \in 1..Len(log) : IsRequest(log[i])}
LastRequest == log[CHOOSE i \in RequestIdx : \A j \in RequestIdx : j <= i]
Done == pc = "done"
SubtaskOp ==
    op \in {"generateSubtasks", "generateSubtasksWithPerplexity",
            "parseSubtasksFromText"}
\* array-mode extraction and normalization of the current text succeed
ParsedPath ==
    /\ ExtractArray(text).ok
    /\ \A i \in 1..Len(ExtractArray(text).elems) :
         ~NormalizeThrows(ExtractArray(text).elems[i])

(***************************************************************************)
(* C1: generateSubtasks never raises to its caller: when the generation    *)
(* request fails, or the response cannot be parsed, it returns numSubtasks *)
(* fallback subtasks.  (Refuted: a failed request is rethrown.)            *)
(***************************************************************************)
C1_ExpandTaskNeverRaises ==
    (op = "generateSubtasks" /\ Done) =>
        /\ result.kind = "returned"
        /\ (LastRequest.ev = "failure" \/ ~ParsedPath) =>
              result.subtasks = FallbackSubtasks(args.startId, args.expectedCount,
                                                 args.parentTaskId)

C3_IdsFromOffset ==
    (SubtaskOp /\ Done /\ result.kind = "returned") =>
        /\ \A i \in 1..Len(result.subtasks) :
             result.subtasks[i].id = args.startId + (i - 1)
        /\ \A i, j \in 1..Len(result.subtasks) :
             i # j => result.subtasks[i].id # result.subtasks[j].id

\* a parsed array of two subtasks whose emitted ids (99, 1) were both wrong
C3_Witness ==
    /\ SubtaskOp /\ Done /\ result.kind = "returned" /\ ParsedPath
    /\ args.startId = 5
    /\ Len(result.subtasks) = 2
    /\ ExtractArray(text).elems[1].id = Num(99)
    /\ ExtractArray(text).elems[2].id = Num(1)

(***************************************************************************)
(* Notions of the PRD breakdown.                                           *)
(***************************************************************************)
Breakdown == op = "callGemini"
IsFailure(e) == e.ev = "failure"
Waits(l) == SelectSeq(l, LAMBDA x : x.ev = "wait")
\* the event at position i is a failed request that was retried after a wait
Retried(i) == i < Len(log) /\ log[i + 1].ev = "wait"
\* every response so far held no JSON object: no pair of braces, or braces
\* around something that does not parse
NoJsonObjectSoFar ==
    \A i \in 1..Len(log) :
        /\ log[i].ev \in {"response", "extractFailed"}
        /\ log[i].ev = "extractFailed" => log[i].err.msg \in {NoJsonMsg, SyntaxErrorMsg}
\* every request so far failed, with a failure of one of the classes
OnlyFailuresOf(classes) ==
    \A i \in 1..Len(log) :
        /\ log[i].ev \in {"failure", "wait"}
        /\ IsFailure(log[i]) => ErrorClass(log[i].err) \in classes

(***************************************************************************)
(* C4: when every generation request of callGemini returns a text without  *)
(* a JSON object, the invocation issues two requests in all (one same-text *)
(* extraction retry, one regeneration) and then throws.  (Refuted: every   *)
(* regeneration restarts the extraction count, so a third request follows.)*)
(***************************************************************************)
C4_GarbageTwoRequestsThenFatal ==
    (Breakdown /\ NoJsonObjectSoFar) =>
        /\ Requests(log) <= 2
        /\ (Requests(log) = 2 /\ log[Len(log)].ev = "extractFailed") =>
              (Done /\ result.kind = "thrown")

(***************************************************************************)
(* C5: a request of callGemini that fails with quota exhaustion, a timeout *)
(* or a network failure is retried while fewer than 2 retries were made:   *)
(* when only such failures occur, callGemini throws only after 2 retries.  *)
(* (Refuted: quota and timeout failures are thrown at once.)               *)
(***************************************************************************)
C5_RetryableClassesRetried ==
    (Breakdown /\ Done /\ OnlyFailuresOf({"quota", "timeout", "network"})) =>
        Len(Waits(log)) = 2

(***************************************************************************)
(* C6: when every generation request fails with a network failure, one     *)
(* invocation of callGemini issues exactly 3 requests, waits 5 s before    *)
(* the second and 10 s before the third, then throws; never a fourth.      *)
(***************************************************************************)
C6_NetworkThreeRequestsLinearBackoff ==
    (Breakdown /\ OnlyFailuresOf({"network"})) =>
        /\ Requests(log) <= 3
        /\ \A i \in 1..Len(log) : IsFailure(log[i]) <=> i % 2 = 1
        /\ Len(log) >= 2 => log[2].n = 1 * 5000
        /\ Len(log) >= 4 => log[4].n = 2 * 5000
        /\ Requests(log) = 3 => pc \in {"catch", "done"}
        /\ Done => (Requests(log) = 3 /\ result.kind = "thrown")

\* three network failures in a row, and the call has thrown
C6_Witness ==
    /\ Breakdown /\ Done /\ OnlyFailuresOf({"network"})
    /\ Requests(log) = 3
    /\ Waits(log) = <<Event("wait", NoError, 5000), Event("wait", NoError, 10000)>>
    /\ result.kind = "thrown"

(***************************************************************************)
(* C7: a generation failure of callGemini classified as permission         *)
(* (PERMISSION_DENIED) or malformed request (INVALID_ARGUMENT) is never    *)
(* retried: no wait and no request follows it, and the call throws.        *)
(***************************************************************************)
C7_FatalClassesNotRetried ==
    Breakdown =>
        \A i \in 1..Len(log) :
            (IsFailure(log[i]) /\ ErrorClass(log[i].err) \in {"permission", "invalid"}) =>
                /\ i = Len(log)
                /\ pc \in {"catch", "done"}
                /\ Done => result.kind = "thrown"
                /\ i = 1 => Requests(log) = 1

\* the first request failed with PERMISSION_DENIED and the call has thrown
C7_Witness ==
    /\ Breakdown /\ Done /\ result.kind = "thrown"
    /\ Len(log) = 1 /\ IsFailure(log[1])
    /\ ErrorClass(log[1].err) = "permission"

(***************************************************************************)
(* C8: the retry decision of callGemini depends on the class of the        *)
(* failure only: two failures of one class, met at the same retryCount,    *)
(* get the same decision, and a failure of the class "anything else" is    *)
(* never retried, whatever its message says.  (Refuted: an error with an   *)
(* unrecognised code is retried when its message contains "network".)      *)
(***************************************************************************)
C8_DecisionByClassOnly ==
    Breakdown =>
        /\ \A i \in 1..Len(log) :
             (IsFailure(log[i]) /\ ErrorClass(log[i].err) = "other") => ~Retried(i)
        /\ \A i, j \in 1..(Len(log) - 1) :
             (/\ IsFailure(log[i]) /\ IsFailure(log[j])
              /\ ErrorClass(log[i].err) = ErrorClass(log[j].err)
              /\ log[i].n = log[j].n) => (Retried(i) <=> Retried(j))

(***************************************************************************)
(* C9: when callGemini throws after a generation failure, the message of   *)
(* the thrown error is exactly the user-facing message handleGeminiError   *)
(* gives for the backend's failure.  (Refuted: the message is translated   *)
(* twice and comes out prefixed.)                                          *)
(***************************************************************************)
C9_ThrownMessageIsUserMessage ==
    (Breakdown /\ Done /\ result.kind = "thrown" /\ IsFailure(LastRequest)) =>
        result.msg = handleGeminiError(LastRequest.err)

(***************************************************************************)
(* C10: callGemini never returns fabricated data: what it returns has the  *)
(* tasks array of a JSON object in the text of the response just received  *)
(* in this invocation; when no response was extracted, the invocation ends *)
(* by throwing, and returns nothing.                                       *)
(***************************************************************************)
C10_NoFabricatedTasks ==
    (Breakdown /\ Done) =>
        IF \E i \in 1..Len(log) : log[i].ev = "extracted"
        THEN /\ result.kind = "returned"
             /\ Len(log) >= 2
             /\ log[Len(log)].ev = "extracted"
             /\ log[Len(log) - 1].ev = "response"
             /\ \E k \in 1..Len(text) :
                  /\ text[k] \in ObjLiterals
                  /\ ObjValue(text[k]).hasTasks /\ ObjValue(text[k]).tasksIsArray
                  /\ result.data.tasks = ObjValue(text[k]).tasks
        ELSE /\ result.kind = "thrown"
             /\ result.data = NoData

\* after a response without JSON and a regeneration, the one task of the
\* second response is returned although two were asked for
C10_Witness ==
    /\ Breakdown /\ Done /\ result.kind = "returned"
    /\ Requests(log) = 2
    /\ args.numTasks = 2
    /\ text = <<"w", "OBJ_T1", "w">>
    /\ result.data.tasks = <<Task(1, "high")>>

(***************************************************************************)
(* Notions of the expansion with research.                                 *)
(***************************************************************************)
ResearchOp == op = "generateSubtasksWithPerplexity"
ResearchFailed == \E i \in 1..Len(log) : log[i].ev = "researchFailed"

(***************************************************************************)
(* C11: generateSubtasksWithPerplexity throws only when the research step  *)
(* fails; once research has succeeded, a failed generation request or an   *)
(* unparseable response yields numSubtasks fallback subtasks, and nothing  *)
(* is thrown.  (Refuted: a failed generation request is rethrown.)         *)
(***************************************************************************)
C11_ResearchExpandThrowsOnlyOnResearchFailure ==
    (ResearchOp /\ Done) =>
        IF ResearchFailed
        THEN result.kind = "thrown"
        ELSE /\ result.kind = "returned"
             /\ (LastRequest.ev = "failure" \/ ~ParsedPath) =>
                   result.subtasks = FallbackSubtasks(args.startId, args.expectedCount,
                                                      args.parentTaskId)

(***************************************************************************)
(* C12: in generateSubtasksWithPerplexity the research request completes   *)
(* before the generation request is issued; when research fails (the       *)
(* credential is missing or the request fails) the call throws, no         *)
(* generation request is issued and no subtasks are returned.              *)
(***************************************************************************)
C12_ResearchFirstAndFatal ==
    ResearchOp =>
        /\ \A i \in 1..Len(log) :
             IsRequest(log[i]) => (i = 2 /\ log[1].ev = "research")
        /\ pc = "resRequest" => log = <<Event("research", NoError, 0)>>
        /\ pc = "research" => log = <<>>
        /\ ResearchFailed =>
             /\ Done
             /\ result.kind = "thrown"
             /\ result.subtasks = <<>>
             /\ RequestIdx = {}
             /\ log[Len(log)].ev = "researchFailed"

\* the research request failed and the call has thrown its error
C12_Witness ==
    /\ ResearchOp /\ Done /\ result.kind = "thrown"
    /\ log = <<Event("researchFailed", PlainError(VendorNetwork), 0)>>

(***************************************************************************)
(* C13: whenever array-mode extraction fails in parseSubtasksFromText (no  *)
(* bracket pair, invalid JSON, an element that cannot be normalized), the  *)
(* result is exactly expectedCount records, the i-th (from 0) with id      *)
(* startId + i, title 'Subtask {id}', the description and details of an    *)
(* auto-generated fallback, no dependencies, status 'pending' and the      *)
(* parent's id as parentTaskId.                                            *)
(***************************************************************************)
C13_FallbackShape ==
    (SubtaskOp /\ Done /\ result.kind = "returned" /\ ~ParsedPath) =>
        /\ Len(result.subtasks) = args.expectedCount
        /\ \A k \in 1..Len(result.subtasks) :
             LET sub == result.subtasks[k]
             IN  /\ sub.id = args.startId + (k - 1)
                 /\ sub.title = [text |-> "Subtask ", num |-> sub.id]
                 /\ sub.description = "Auto-generated fallback subtask"
                 /\ sub.details = "This is a fallback subtask created because parsing failed. Please update with real details."
                 /\ sub.dependencies = <<>>
                 /\ sub.status = "pending"
                 /\ sub.parentTaskId = args.parentTaskId

\* a text with brackets around prose: two fallback subtasks numbered from 5
C13_Witness ==
    /\ SubtaskOp /\ Done /\ result.kind = "returned"
    /\ text = <<"[", "w", "]">>
    /\ args.startId = 5 /\ args.expectedCount = 2
    /\ Len(result.subtasks) = 2
    /\ result.subtasks[2].title = [text |-> "Subtask ", num |-> 6]

(***************************************************************************)
(* C14: a response text that holds an empty JSON array is a structural     *)
(* failure: parseSubtasksFromText yields the expectedCount fallback        *)
(* subtasks and never an empty sequence.  (Refuted: the empty array is     *)
(* returned as it is.)                                                     *)
(***************************************************************************)
C14_EmptyArrayIsFailure ==
    (SubtaskOp /\ Done /\ result.kind = "returned") =>
        /\ result.subtasks # <<>>
        /\ (ExtractArray(text).ok /\ ExtractArray(text).elems = <<>>) =>
              result.subtasks = FallbackSubtasks(args.startId, args.expectedCount,
                                                 args.parentTaskId)

(***************************************************************************)
(* C15: after normalization every subtask's dependencies is a sequence of  *)
(* integers: a string element is replaced by the integer it denotes, and a *)
(* missing or non-array dependencies field becomes the empty sequence.     *)
(* (Refuted: a string that denotes no integer becomes NaN, and an element  *)
(* that is neither a string nor a number is kept.)                         *)
(***************************************************************************)
C15_DependenciesAreIntegers ==
    (SubtaskOp /\ Done /\ result.kind = "returned") =>
        \A i \in 1..Len(result.subtasks) :
            /\ \A k \in 1..Len(result.subtasks[i].dependencies) :
                 result.subtasks[i].dependencies[k].t = "number"
            /\ (ParsedPath /\ ~ExtractArray(text).elems[i].depsIsArray) =>
                  result.subtasks[i].dependencies = <<>>

(***************************************************************************)
(* C16: in every returned subtask sequence each dependency of a subtask is *)
(* the id of a sibling of the sequence with a lower id than the subtask's  *)
(* own id (the id after correction); so no subtask depends on itself.      *)
(* (Refuted: dependencies are coerced but never compared with the ids.)    *)
(***************************************************************************)
C16_DependenciesReferToEarlierSiblings ==
    (SubtaskOp /\ Done /\ result.kind = "returned") =>
        \A i \in 1..Len(result.subtasks) :
            \A k \in 1..Len(result.subtasks[i].dependencies) :
                LET dep == result.subtasks[i].dependencies[k]
                IN  /\ dep.t = "number"
                    /\ dep.n # result.subtasks[i].id
                    /\ dep.n < result.subtasks[i].id
                    /\ \E j \in 1..Len(result.subtasks) :
                         result.subtasks[j].id = dep.n

(***************************************************************************)
(* C17: every subtask returned by parseSubtasksFromText, parsed or         *)
(* fallback, has status 'pending' and the parentTaskId the caller passed,  *)
(* whatever status or parentTaskId the model output carried.               *)
(***************************************************************************)
C17_StatusAndParentForced ==
    (SubtaskOp /\ Done /\ result.kind = "returned") =>
        \A i \in 1..Len(result.subtasks) :
            /\ result.subtasks[i].status = "pending"
            /\ result.subtasks[i].parentTaskId = args.parentTaskId

\* a parsed subtask whose output said status 'done' and parentTaskId 77
C17_Witness ==
    /\ SubtaskOp /\ Done /\ result.kind = "returned" /\ ParsedPath
    /\ Len(result.subtasks) >= 1
    /\ ExtractArray(text).elems[1].status = "done"
    /\ ExtractArray(text).elems[1].parentTaskId = 77
    /\ args.parentTaskId = 3

(***************************************************************************)
(* Notions of object-mode extraction.                                      *)
(***************************************************************************)
ObjectOp == op \in {"callGemini", "processGeminiResponse"}
\* the JSON object the current text holds between its first opening and its
\* last closing brace
ParsedObject == ObjValue(text[IndexOf(text, {"{"} \cup ObjLiterals)])
\* object-mode extraction of the current text succeeds
ObjectParses == ExtractObject(text, args.numTasks, args.prdPath, "").ok

(***************************************************************************)
(* C18: processGeminiResponse passes a metadata object of the backend      *)
(* through unchanged; when the metadata is absent it makes one with        *)
(* projectName, totalTasks = number of tasks returned, sourceFile = the    *)
(* prdPath argument, and generatedAt; the tasks are those of the response  *)
(* in both cases.                                                          *)
(***************************************************************************)
C18_MetadataPassedOrSynthesized ==
    (ObjectOp /\ Done /\ result.kind = "returned") =>
        /\ result.data.tasks = ParsedObject.tasks
        /\ IF ParsedObject.hasMetadata
           THEN result.data.metadata = ParsedObject.metadata
           ELSE /\ result.data.metadata.projectName = "PRD Implementation"
                /\ result.data.metadata.totalTasks = Len(result.data.tasks)
                /\ result.data.metadata.sourceFile = args.prdPath
                /\ result.data.metadata.generatedAt \in Dates

\* the backend's metadata came back as sent, its totalTasks of 7 beside the
\* two tasks of the response
C18_Witness ==
    /\ ObjectOp /\ Done /\ result.kind = "returned"
    /\ ParsedObject.hasMetadata
    /\ result.data.metadata = BackendMetadata
    /\ result.data.metadata.totalTasks # Len(result.data.tasks)

(***************************************************************************)
(* C19: when the parsed tasks array has another length than numTasks,      *)
(* processGeminiResponse still succeeds: it returns all parsed tasks in    *)
(* their order, neither truncated nor padded, without a retry or an error. *)
(***************************************************************************)
C19_CountMismatchKeepsAllTasks ==
    (ObjectOp /\ Done /\ ObjectParses
       /\ Len(ParsedObject.tasks) # args.numTasks) =>
        /\ result.kind = "returned"
        /\ result.data.tasks = ParsedObject.tasks
        /\ log[Len(log)].ev = "extracted"
        /\ Len(log) > 1 => log[Len(log) - 1].ev = "response"

\* one task was asked for; the two tasks of the first response are returned
C19_Witness ==
    /\ Breakdown /\ Done /\ result.kind = "returned"
    /\ args.numTasks = 1
    /\ Requests(log) = 1
    /\ result.data.tasks = <<Task(1, "high"), Task(2, "low")>>

(***************************************************************************)
(* C20: in every task collection callGemini returns, the task ids are      *)
(* pairwise distinct, strictly increasing in list order, and start at 1.   *)
(* (Refuted: the ids of the response are returned unexamined.)             *)
(***************************************************************************)
C20_TaskIdsIncreasingFromOne ==
    (Breakdown /\ Done /\ result.kind = "returned") =>
        /\ Len(result.data.tasks) >= 1 => result.data.tasks[1].id = 1
        /\ \A i, j \in 1..Len(result.data.tasks) :
             i < j => result.data.tasks[i].id < result.data.tasks[j].id

(***************************************************************************)
(* C21: in every task collection callGemini returns, every task has status *)
(* 'pending' and a priority among high, medium and low, the priority being *)
(* 'medium' when the generated data carried none.  (Refuted: the tasks of  *)
(* the response are returned as parsed.)                                   *)
(***************************************************************************)
C21_TasksPendingWithPriority ==
    (Breakdown /\ Done /\ result.kind = "returned") =>
        \A i \in 1..Len(result.data.tasks) :
            /\ result.data.tasks[i].status = "pending"
            /\ result.data.tasks[i].priority \in {"high", "medium", "low"}
            /\ ParsedObject.tasks[i].priority = "" =>
                  result.data.tasks[i].priority = "medium"

(***************************************************************************)
(* Notions of the second run of an extractor.                              *)
(***************************************************************************)
ExtractorOp == op \in {"processGeminiResponse", "parseSubtasksFromText"}
\* the extractor has run twice on the current text
RanTwice == prev # NoResult

C23_NoRequestWithoutCredential ==
    ~googleKey =>
        /\ op = "none"
        /\ inflight = 0
        /\ RequestIdx = {}

(***************************************************************************)
(* C24: a missing PERPLEXITY_API_KEY makes only the research path fail:    *)
(* generateSubtasksWithPerplexity, finding no client and no key, throws    *)
(* before it sends a request or starts an indicator; callGemini and        *)
(* generateSubtasks never touch the research client and never take that    *)
(* failure.                                                                *)
(***************************************************************************)
C24_MissingResearchKeyFailsResearchOnly ==
    /\ (ResearchOp /\ ~args.researchKey /\ ~perplexity) =>
          /\ Done
          /\ result = Thrown(MissingKeyMsg)
          /\ log = <<Event("researchFailed", PlainError(MissingKeyMsg), 0)>>
          /\ indicators = {} /\ timers = 0 /\ inflight = 0
    /\ (ResearchOp /\ Done /\ result.msg = MissingKeyMsg) =>
          (~args.researchKey /\ ~perplexity)
    /\ (Breakdown \/ op = "generateSubtasks") =>
          /\ "research" \notin indicators
          /\ \A i \in 1..Len(log) : log[i].ev \notin {"research", "researchFailed"}
          /\ result.msg # MissingKeyMsg

\* the research path called without a key and without a client
C24_Witness ==
    /\ ResearchOp /\ Done /\ ~args.researchKey
    /\ result = Thrown(MissingKeyMsg)
    /\ indicators = {}

(***************************************************************************)
(* C25: callGemini applied to an empty PRD text (or to a malformed or      *)
(* unstructured one) ends in a thrown error and never in a returned task   *)
(* collection.  (Refuted: the PRD text is only put into the prompt; what   *)
(* the backend answers is returned.)                                       *)
(***************************************************************************)
C25_BadPrdNeverReturns ==
    (Breakdown /\ Done /\ args.prdContent = EmptyPrd) => result.kind = "thrown"

(***************************************************************************)
(* C26: every invocation of callGemini ends, because the retry counters    *)
(* bound the recursion callGemini -> handleStreamingRequest ->             *)
(* processGeminiResponse -> callGemini: beside the activation the caller   *)
(* started there is at most one that a regeneration started.  (Refuted:    *)
(* every unparseable response starts one more.)                            *)
(***************************************************************************)
C26_RecursionBounded ==
    Breakdown => Len(stack) <= 2

(***************************************************************************)
(* C27: after the first extraction failure on a response the extraction is *)
(* run again on the same text, with no generation request in between; only *)
(* after the second failure on that text is a new generation request       *)
(* issued, and its response is extracted in turn.                          *)
(***************************************************************************)
C27_SameTextThenRegenerate ==
    Breakdown =>
        \A i \in 1..Len(log) :
            /\ (log[i].ev = "extractFailed" /\ log[i].n = 0) =>
                  /\ i > 1 /\ log[i - 1].ev = "response"
                  /\ i < Len(log)
                  /\ log[i + 1] = Event("extractFailed", log[i].err, 1)
            /\ (log[i].ev = "extractFailed" /\ log[i].n = 1) =>
                  /\ i > 1 /\ log[i - 1].ev = "extractFailed" /\ log[i - 1].n = 0
                  /\ IF i = Len(log)
                     THEN pc = "request" /\ inflight = 1 /\ text = <<>>
                     ELSE IsRequest(log[i + 1])
            /\ (log[i].ev = "response" /\ i > 1 /\ log[i - 1].ev # "wait") =>
                  (log[i - 1].ev = "extractFailed" /\ log[i - 1].n = 1)
            /\ log[i].ev = "response" =>
                  (i < Len(log) /\ log[i + 1].ev \in {"extracted", "extractFailed"}
                     /\ log[i + 1].n = 0)

\* a response without JSON, two failed extractions of it, a second response
\* that is extracted and returned
C27_Witness ==
    /\ Breakdown /\ Done /\ result.kind = "returned"
    /\ Len(log) = 5
    /\ log[1].ev = "response"
    /\ log[2] = Event("extractFailed", PlainError(NoJsonMsg), 0)
    /\ log[3] = Event("extractFailed", PlainError(NoJsonMsg), 1)
    /\ log[4].ev = "response"
    /\ log[5].ev = "extracted"

(***************************************************************************)
(* C28: every interval timer an operation sets is cleared before the       *)
(* operation returns, throws or is retried: a timer is active only while   *)
(* the generation request of a subtask expansion is pending, and never in  *)
(* a final state, in a catch block or during a backoff.                    *)
(***************************************************************************)
C28_TimersCleared ==
    /\ timers \in {0, 1}
    /\ timers = 1 => pc \in {"subRequest", "resRequest"}
    /\ pc \in {"done", "idle", "catch", "wait"} => timers = 0

\* generateSubtasks has thrown the error of its request; its timer is off
C28_Witness ==
    /\ op = "generateSubtasks" /\ Done /\ result.kind = "thrown"
    /\ LastRequest.ev = "failure"
    /\ timers = 0

(***************************************************************************)
(* C29: every loading indicator an operation starts is stopped before the  *)
(* operation returns or throws, on every path, also when the research      *)
(* request fails after the research indicator was started.  (Refuted: on   *)
(* that path the research indicator is never stopped.)                     *)
(***************************************************************************)
C29_IndicatorsStopped ==
    Done => indicators = {}

(***************************************************************************)
(* C30: within one invocation at most one backend request, generation or   *)
(* research, is in flight at any moment: a request is issued only after    *)
(* the one before has completed or failed, also across backoff retries,    *)
(* regenerations and the step from research to generation.                 *)
(***************************************************************************)
C30_OneRequestInFlight ==
    /\ inflight \in {0, 1}
    /\ inflight = 1 <=> pc \in {"request", "subRequest", "research", "resRequest"}
    /\ inflight = 1 => (log = <<>> \/ log[Len(log)].ev \notin {"response", "failure"})

\* the research has completed and the generation request is the one in flight
C30_Witness ==
    /\ ResearchOp /\ pc = "resRequest"
    /\ log = <<Event("research", NoError, 0)>>
    /\ inflight = 1

(***************************************************************************)
(* C31: getPerplexityClient constructs the research client at most once    *)
(* per process, in every interleaving of research-mode invocations: every  *)
(* invocation that gets a client gets the one built by the first           *)
(* construction; an invocation that finds neither a client nor the         *)
(* credential throws and leaves the client unset.                          *)
(***************************************************************************)
C31_ClientConstructedOnce ==
    /\ constructed <= 1
    /\ perplexity <=> (constructed = 1)
    /\ \A i \in 1..MaxCalls :
         calls[i].pc # "idle" =>
           /\ (~calls[i].key /\ ~calls[i].found) =>
                 /\ calls[i].pc = "thrown"
                 /\ calls[i].handle = 0
                 /\ ~calls[i].left
           /\ (calls[i].key \/ calls[i].found) =>
                 /\ calls[i].handle = 1
                 /\ calls[i].left

\* one invocation threw for want of the credential, and two later ones,
\* awaiting their requests side by side, hold the same client
C31_Witness ==
    \E i, j, k \in 1..MaxCalls :
        /\ i # j /\ j # k /\ i # k
        /\ calls[i].pc = "thrown" /\ ~calls[i].key /\ calls[i].handle = 0
        /\ calls[j].pc = "research" /\ ~calls[j].found
        /\ calls[k].pc \in {"research", "generation"} /\ calls[k].found
        /\ calls[j].handle = calls[k].handle
        /\ constructed = 1

(***************************************************************************)
(* C32: handleGeminiError gives each of the five failure classes its own   *)
(* message, whatever the backend's wording: an error with a structured     *)
(* code RESOURCE_EXHAUSTED, PERMISSION_DENIED or INVALID_ARGUMENT gets the *)
(* quota, permission or request-format message even when its text speaks   *)
(* of a timeout or of the network; an unstructured error whose text        *)
(* contains "timeout" gets the timeout message, even when it also contains *)
(* "network"; one that contains only "network" gets the network message;   *)
(* the five messages are pairwise distinct.                                *)
(***************************************************************************)
C32_ClassDecidesMessage ==
    /\ Cardinality({QuotaMsg, PermissionMsg, InvalidMsg, TimeoutMsg, NetworkMsg}) = 5
    /\ (op = "handleGeminiError" /\ Done) =>
          /\ (err.structured /\ err.code = "RESOURCE_EXHAUSTED") =>
                result.msg = QuotaMsg
          /\ (err.structured /\ err.code = "PERMISSION_DENIED") =>
                result.msg = PermissionMsg
          /\ (err.structured /\ err.code = "INVALID_ARGUMENT") =>
                result.msg = InvalidMsg
          /\ (err.structured /\ err.code = "UNAVAILABLE") =>
                result.msg \notin {TimeoutMsg, NetworkMsg}
          /\ (~err.structured /\ Includes(err.msg, "timeout")) =>
                result.msg = TimeoutMsg
          /\ (~err.structured /\ ~Includes(err.msg, "timeout")
                 /\ Includes(err.msg, "network")) =>
                result.msg = NetworkMsg

\* an unstructured error whose text speaks of the network and then of a
\* timeout was translated
C32_Witness ==
    /\ op = "handleGeminiError" /\ Done
    /\ err = PlainError(VendorNetwork \o VendorTimeout)
    /\ result.msg = TimeoutMsg

(***************************************************************************)
(* C33: in handleStreamingRequest, generateSubtasks and                    *)
(* generateSubtasksWithPerplexity the progress ticker runs while the       *)
(* generation request is in flight: its interval is set before the request *)
(* is sent and cleared only after the response or the failure arrived.     *)
(* (Refuted: handleStreamingRequest sets the interval after the response   *)
(* has arrived.)                                                           *)
(***************************************************************************)
C33_TickerWhileInFlight ==
    (pc \in {"request", "subRequest", "resRequest"} /\ inflight > 0) =>
        timers = 1

(***************************************************************************)
(* C34: for every positive defaultSubtasks the range of recommended        *)
(* subtasks that generateComplexityAnalysisPrompt writes into the prompt   *)
(* is not empty and lies within 3..8: low <= high, 3 <= low, high <= 8.    *)
(* (Refuted: from defaultSubtasks 10 on the prompt asks for "9-8",         *)
(* "10-8", ...)                                                            *)
(***************************************************************************)
C34_RecommendedRangeValid ==
    (op = "generateComplexityAnalysisPrompt" /\ Done) =>
        /\ prompt.low <= prompt.high
        /\ prompt.low \in 3..8
        /\ prompt.high \in 3..8
====
